---- MODULE Spec2Model ----
(***************************************************************************)
(* Model of dialoguer's theme module (src/src/theme.rs): the Theme         *)
(* formatters of the four theme variants and the TermThemeRenderer, the    *)
(* stateful writer that counts the lines it emits so that it can erase     *)
(* them again.                                                             *)
(*                                                                         *)
(* A string is a sequence of characters; a character is a one-element      *)
(* TLA+ string, or a named token for a non-ASCII glyph or an SGR escape.   *)
(***************************************************************************)
EXTENDS FiniteSets, Integers, Sequences, TLC

VARIABLES
    pc,                   \* "setup" (theme being built), "render" (renderer in use), "panicked"
    theme,                \* the Theme value the renderer borrows
    from_default,         \* the theme is exactly what its default() returned
    colors_enabled,       \* console's colour switch, read by StyledObject's Display
    height,               \* TermThemeRenderer.height
    prompt_height,        \* TermThemeRenderer.prompt_height
    prompts_reset_height, \* TermThemeRenderer.prompts_reset_height
    term_call,            \* the call the Terminal received in the latest operation
    accounted,            \* lines counted as emitted that no clear request has erased yet
    last,                 \* the latest renderer operation: its name, inputs and result
    fcall,                \* the latest direct call of a Theme formatter, and its result
    drv                   \* the widget driving the renderer: its redraw loop and what it wrote

vars == <<pc, theme, from_default, colors_enabled, height, prompt_height,
          prompts_reset_height, term_call, accounted, last, fcall, drv>>

(***************************************************************************)
(* Bounds of the model.                                                    *)
(***************************************************************************)
\* largest value height and the count of outstanding lines may take
MaxLines == 3
\* most redraw cycles a widget is driven through
MaxCycles == 3

(***************************************************************************)
(* Characters and strings.                                                 *)
(***************************************************************************)
NL == "\n"
CR == "\r"

\* buf.chars().filter(|&x| x == '\n').count()
RECURSIVE count_newlines(_)
count_newlines(buf) ==
    IF buf = <<>> THEN 0
    ELSE (IF Head(buf) = NL THEN 1 ELSE 0) + count_newlines(Tail(buf))

\* char::to_ascii_uppercase on the characters the model uses
to_ascii_uppercase(c) ==
    CASE c = "y" -> "Y"
      [] c = "n" -> "N"
      [] c = "p" -> "P"
      [] c = "a" -> "A"
      [] OTHER -> c

\* Option<T>; None carries a filler of T
NoneOf(filler) == [some |-> FALSE, val |-> filler]
Some(v) == [some |-> TRUE, val |-> v]
\* None of Option<u8>, Option<&str> and Option<bool>
NoneU8 == NoneOf(0)
NoneStr == NoneOf(<<>>)
NoneBool == NoneOf(FALSE)

\* Option<u8>::unwrap_or(100): the index used when no default is given
NoDefaultIndex == 100

\* usize::MAX.  The model's usize is as wide as the checker's integers; what the
\* code needs of it is that it exceeds every index of a sequence.
UsizeMax == 2147483647

\* a - b on usize: panics when the build has overflow checks (debug), wraps
\* otherwise (release)
usize_sub(a, b, overflow_checks) ==
    IF a >= b THEN [panic |-> FALSE, val |-> a - b]
    ELSE IF overflow_checks THEN [panic |-> TRUE, val |-> 0]
    ELSE [panic |-> FALSE, val |-> (UsizeMax - (b - a)) + 1]

(***************************************************************************)
(* console::Style.  A style is the sequence of SGR escapes it switches on; *)
(* a styled object prints them, the text, and a reset, when colours are    *)
(* enabled and the style is not empty.                                     *)
(***************************************************************************)
apply_to(style, text) ==
    IF colors_enabled /\ style # <<>>
    THEN style \o text \o <<"SGR_reset">>
    ELSE text

\* SelectionStyle
SelectionStyle ==
    {"CheckboxUncheckedSelected", "CheckboxUncheckedUnselected",
     "CheckboxCheckedSelected", "CheckboxCheckedUnselected",
     "MenuSelected", "MenuUnselected"}

(***************************************************************************)
(* Theme values.  Every variant is a record of the same shape; the fields  *)
(* a variant does not have hold a fixed filler.                            *)
(***************************************************************************)
SimpleTheme ==
    [kind |-> "SimpleTheme", prompt_character |-> ":",
     inline_selections |-> FALSE, is_sort |-> FALSE]

CustomPromptCharacterTheme_new(character) ==
    [kind |-> "CustomPromptCharacterTheme", prompt_character |-> character,
     inline_selections |-> FALSE, is_sort |-> FALSE]

CustomPromptCharacterTheme_default == CustomPromptCharacterTheme_new(":")

ColorfulTheme_default ==
    [kind |-> "ColorfulTheme", prompt_character |-> ":",
     inline_selections |-> FALSE, is_sort |-> FALSE]

ColoredTheme_default ==
    [kind |-> "ColoredTheme", prompt_character |-> ":",
     inline_selections |-> TRUE, is_sort |-> TRUE]

\* the style fields of ColorfulTheme::default()
Colorful_defaults_style == <<"SGR_dim">>
Colorful_error_style == <<"SGR_red">>
Colorful_indicator_style == <<"SGR_cyan", "SGR_bold">>
Colorful_inactive_style == <<"SGR_dim">>
Colorful_active_style == <<>>
Colorful_yes_style == <<"SGR_green">>
Colorful_no_style == <<"SGR_green">>
Colorful_values_style == <<"SGR_cyan">>

\* the style fields of ColoredTheme::default()
Colored_defaults_style == <<"SGR_yellow", "SGR_bold">>
Colored_prompts_style == <<"SGR_bold">>
Colored_prefixes_style == <<"SGR_cyan">>
Colored_values_style == <<"SGR_green">>
Colored_errors_style == <<"SGR_red">>
Colored_selected_style == <<"SGR_cyan", "SGR_bold">>
Colored_unselected_style == <<>>

\* the glyphs of ColoredTheme
CROSS == "U+2718"
CHECK == "U+2714"
POINTER == "U+276F"
RAQUO == "U+203A"
MIDDOT == "U+00B7"

(***************************************************************************)
(* trait Theme: the default methods (used unchanged by SimpleTheme).       *)
(***************************************************************************)
Theme_format_prompt(t, prompt) == prompt \o <<":">>

Theme_format_singleline_prompt(t, prompt, default) ==
    IF default.some
    THEN prompt \o <<" ", "[">> \o default.val \o <<"]", ":", " ">>
    ELSE prompt \o <<":", " ">>

Theme_format_error(t, err) == <<"e", "r", "r", "o", "r", ":", " ">> \o err

Theme_format_confirmation_prompt(t, prompt, default) ==
    prompt \o (IF ~default.some THEN <<>>
               ELSE IF default.val THEN <<" ", "[", "Y", "/", "n", "]", " ">>
               ELSE <<" ", "[", "y", "/", "N", "]", " ">>)

\* the loop of _format_key_prompt from position pos (0-based) on
RECURSIVE format_key_prompt_loop(_, _, _)
format_key_prompt_loop(choices, num, pos) ==
    IF pos >= Len(choices) THEN <<>>
    ELSE <<(IF pos = num THEN to_ascii_uppercase(choices[pos + 1])
            ELSE choices[pos + 1])>>
         \o (IF pos # Len(choices) - 1 THEN <<"/">> ELSE <<>>)
         \o format_key_prompt_loop(choices, num, pos + 1)

_format_key_prompt(default, choices) ==
    LET num == IF default.some THEN default.val ELSE NoDefaultIndex
    IN  format_key_prompt_loop(choices, num, 0)

Theme_format_key_prompt(t, prompt, default, choices) ==
    prompt \o <<" ", "[">> \o _format_key_prompt(default, choices) \o <<"]", " ">>

Theme_format_confirmation_prompt_selection(t, prompt, selection) ==
    prompt \o <<" ">> \o (IF selection THEN <<"y", "e", "s">> ELSE <<"n", "o">>)

Theme_format_single_prompt_selection(t, prompt, sel) ==
    prompt \o <<":", " ">> \o sel

\* the values of a multi selection, each after ", " except the first
RECURSIVE join_selections(_, _, _)
join_selections(style, selections, idx) ==
    IF idx >= Len(selections) THEN <<>>
    ELSE (IF idx = 0 THEN <<>> ELSE <<",", " ">>)
         \o apply_to(style, selections[idx + 1])
         \o join_selections(style, selections, idx + 1)

Theme_format_multi_prompt_selection(t, prompt, selections, overflow_checks) ==
    [panic |-> FALSE,
     out |-> prompt \o <<":", " ">> \o join_selections(<<>>, selections, 0)]

Theme_format_selection(t, text, style) ==
    (CASE style = "CheckboxUncheckedSelected" -> <<">", " ", "[", " ", "]", " ">>
       [] style = "CheckboxUncheckedUnselected" -> <<" ", " ", "[", " ", "]", " ">>
       [] style = "CheckboxCheckedSelected" -> <<">", " ", "[", "x", "]", " ">>
       [] style = "CheckboxCheckedUnselected" -> <<" ", " ", "[", "x", "]", " ">>
       [] style = "MenuSelected" -> <<">", " ">>
       [] style = "MenuUnselected" -> <<" ", " ">>)
    \o text

(***************************************************************************)
(* impl Theme for CustomPromptCharacterTheme                               *)
(***************************************************************************)
CustomPromptCharacterTheme_format_prompt(t, prompt) ==
    prompt \o <<t.prompt_character>>

CustomPromptCharacterTheme_format_singleline_prompt(t, prompt, default) ==
    IF default.some
    THEN prompt \o <<" ", "[">> \o default.val \o <<"]", t.prompt_character, " ">>
    ELSE prompt \o <<t.prompt_character, " ">>

CustomPromptCharacterTheme_format_single_prompt_selection(t, prompt, sel) ==
    prompt \o <<t.prompt_character, " ">> \o sel

CustomPromptCharacterTheme_format_multi_prompt_selection(t, prompt, selections, oc) ==
    [panic |-> FALSE,
     out |-> prompt \o <<t.prompt_character, " ">>
             \o join_selections(<<>>, selections, 0)]

(***************************************************************************)
(* impl Theme for ColorfulTheme                                            *)
(***************************************************************************)
ColorfulTheme_format_prompt(t, prompt) == prompt \o <<":">>

ColorfulTheme_format_singleline_prompt(t, prompt, default) ==
    IF default.some
    THEN prompt \o <<" ", "[">> \o apply_to(Colorful_defaults_style, default.val)
         \o <<"]", ":", " ">>
    ELSE prompt \o <<":", " ">>

ColorfulTheme_format_error(t, err) ==
    apply_to(Colorful_error_style, <<"e", "r", "r", "o", "r">>) \o <<":", " ">> \o err

ColorfulTheme_format_confirmation_prompt(t, prompt, default) ==
    prompt \o (IF ~default.some THEN <<>>
               ELSE IF default.val
               THEN <<" ">> \o apply_to(Colorful_defaults_style, <<"[", "Y", "/", "n", "]">>)
                    \o <<" ">>
               ELSE <<" ">> \o apply_to(Colorful_defaults_style, <<"[", "y", "/", "N", "]">>)
                    \o <<" ">>)

ColorfulTheme_format_confirmation_prompt_selection(t, prompt, selection) ==
    prompt \o <<" ">>
    \o (IF selection THEN apply_to(Colorful_yes_style, <<"y", "e", "s">>)
        ELSE apply_to(Colorful_no_style, <<"n", "o">>))

ColorfulTheme_format_single_prompt_selection(t, prompt, sel) ==
    prompt \o <<":", " ">> \o apply_to(Colorful_values_style, sel)

ColorfulTheme_format_multi_prompt_selection(t, prompt, selections, overflow_checks) ==
    [panic |-> FALSE,
     out |-> prompt \o <<":", " ">>
             \o join_selections(Colorful_values_style, selections, 0)]

ColorfulTheme_format_selection(t, text, st) ==
    CASE st = "CheckboxUncheckedSelected" ->
            apply_to(Colorful_indicator_style, <<">">>) \o <<" ", "[", " ", "]", " ">>
            \o apply_to(Colorful_active_style, text)
      [] st = "CheckboxUncheckedUnselected" ->
            <<" ", " ", "[", " ", "]", " ">> \o apply_to(Colorful_inactive_style, text)
      [] st = "CheckboxCheckedSelected" ->
            apply_to(Colorful_indicator_style, <<">">>) \o <<" ", "[">>
            \o apply_to(Colorful_indicator_style, <<"x">>) \o <<"]", " ">>
            \o apply_to(Colorful_active_style, text)
      [] st = "CheckboxCheckedUnselected" ->
            <<" ", " ", "[">> \o apply_to(Colorful_indicator_style, <<"x">>)
            \o <<"]", " ">> \o apply_to(Colorful_inactive_style, text)
      [] st = "MenuSelected" ->
            apply_to(Colorful_indicator_style, <<">">>) \o <<" ">>
            \o apply_to(Colorful_active_style, text)
      [] st = "MenuUnselected" ->
            <<" ", " ">> \o apply_to(Colorful_inactive_style, text)

(***************************************************************************)
(* impl Theme for ColoredTheme                                             *)
(***************************************************************************)
\* the builder methods
ColoredTheme_inline_selections(t, val) == [t EXCEPT !.inline_selections = val]

ColoredTheme_set_sort(t, val) == [t EXCEPT !.is_sort = val]

ColoredTheme_empty(t) ==
    <<apply_to(Colored_prompts_style, <<>>), apply_to(Colored_prompts_style, <<>>)>>

ColoredTheme_format_error(t, err) ==
    apply_to(Colored_errors_style, <<CROSS>>) \o <<" ">>
    \o apply_to(Colored_errors_style, err)

ColoredTheme_format_prompt(t, prompt) ==
    apply_to(Colored_prefixes_style, <<"?">>) \o <<" ">>
    \o apply_to(Colored_prompts_style, prompt) \o <<" ">>
    \o apply_to(Colored_defaults_style, <<RAQUO>>)

ColoredTheme_format_singleline_prompt(t, prompt, default) ==
    LET details == IF default.some THEN <<" ", "(">> \o default.val \o <<")">>
                   ELSE <<>>
    IN  apply_to(Colored_prefixes_style, <<"?">>) \o <<" ">>
        \o apply_to(Colored_prompts_style, prompt)
        \o apply_to(Colored_defaults_style, details) \o <<" ">>
        \o apply_to(Colored_defaults_style, <<RAQUO>>) \o <<" ">>

ColoredTheme_format_single_prompt_selection(t, prompt, selection) ==
    apply_to(Colored_values_style, <<CHECK>>) \o <<" ">>
    \o apply_to(Colored_prompts_style, prompt) \o <<" ">>
    \o apply_to(Colored_defaults_style, <<MIDDOT>>) \o <<" ">>
    \o apply_to(Colored_values_style, selection)

ColoredTheme_format_confirmation_prompt(t, prompt, default) ==
    LET details ==
            IF ~default.some THEN ColoredTheme_empty(t)
            ELSE IF default.val
            THEN <<apply_to(Colored_defaults_style, <<"(", "Y", "/", "n", ")">>),
                   apply_to(Colored_prefixes_style, <<"t", "r", "u", "e">>)>>
            ELSE <<apply_to(Colored_defaults_style, <<"(", "y", "/", "N", ")">>),
                   apply_to(Colored_prefixes_style, <<"f", "a", "l", "s", "e">>)>>
    IN  apply_to(Colored_prefixes_style, <<"?">>) \o <<" ">>
        \o apply_to(Colored_prompts_style, prompt) \o <<" ">>
        \o details[1] \o <<" ">>
        \o apply_to(Colored_defaults_style, <<RAQUO>>) \o <<" ">>
        \o details[2] \o <<" ">>

ColoredTheme_format_key_prompt(t, prompt, default, choices) ==
    LET strs == <<"(">> \o _format_key_prompt(default, choices) \o <<")">>
        keys == apply_to(Colored_defaults_style, strs)
    IN  apply_to(Colored_prefixes_style, <<"?">>) \o <<" ">>
        \o apply_to(Colored_prompts_style, prompt) \o <<" ">>
        \o keys \o <<" ">>
        \o apply_to(Colored_defaults_style, <<RAQUO>>) \o <<" ">>

ColoredTheme_format_confirmation_prompt_selection(t, prompt, selection) ==
    apply_to(Colored_values_style, <<CHECK>>) \o <<" ">>
    \o apply_to(Colored_prompts_style, prompt) \o <<" ">>
    \o apply_to(Colored_defaults_style, <<MIDDOT>>) \o <<" ">>
    \o apply_to(Colored_values_style,
                IF selection THEN <<"t", "r", "u", "e">>
                ELSE <<"f", "a", "l", "s", "e">>)

ColoredTheme_format_password_prompt_selection(t, prompt) ==
    ColoredTheme_format_single_prompt_selection(
        t, prompt, <<"*", "*", "*", "*", "*", "*", "*", "*">>)

ColoredTheme_format_selection(t, text, style) ==
    LET strings ==
            CASE style = "CheckboxCheckedSelected" ->
                    <<apply_to(Colored_values_style,
                               IF t.is_sort THEN <<POINTER>> ELSE <<CHECK>>),
                      apply_to(Colored_selected_style, text)>>
              [] style = "CheckboxCheckedUnselected" ->
                    <<apply_to(Colored_values_style, <<CHECK>>),
                      apply_to(Colored_unselected_style, text)>>
              [] style = "CheckboxUncheckedSelected" ->
                    <<(IF t.is_sort THEN apply_to(Colored_defaults_style, <<" ">>)
                       ELSE apply_to(Colored_defaults_style, <<CHECK>>)),
                      apply_to(Colored_selected_style, text)>>
              [] style = "CheckboxUncheckedUnselected" ->
                    <<(IF t.is_sort THEN apply_to(Colored_defaults_style, <<" ">>)
                       ELSE apply_to(Colored_defaults_style, <<CHECK>>)),
                      apply_to(Colored_unselected_style, text)>>
              [] style = "MenuSelected" ->
                    <<apply_to(Colored_values_style, <<POINTER>>),
                      apply_to(Colored_selected_style, text)>>
              [] style = "MenuUnselected" ->
                    <<apply_to(Colored_defaults_style, <<" ">>),
                      apply_to(Colored_unselected_style, text)>>
    IN  strings[1] \o <<" ">> \o strings[2]

\* the prompt part that format_multi_prompt_selection writes first
ColoredTheme_multi_prompt_part(t, prompt) ==
    apply_to(Colored_values_style, <<CHECK>>) \o <<" ">>
    \o apply_to(Colored_prompts_style, prompt) \o <<" ">>
    \o apply_to(Colored_defaults_style, <<MIDDOT>>)

\* the loop over the selections from index i (0-based) on
RECURSIVE ColoredTheme_multi_loop(_, _, _)
ColoredTheme_multi_loop(selections, selections_last_index, i) ==
    IF i >= Len(selections) THEN <<>>
    ELSE (IF i = selections_last_index
          THEN <<" ">> \o apply_to(Colored_values_style, selections[i + 1])
          ELSE <<" ">> \o apply_to(Colored_values_style, selections[i + 1]) \o <<",">>)
         \o ColoredTheme_multi_loop(selections, selections_last_index, i + 1)

ColoredTheme_format_multi_prompt_selection(t, prompt, selections, overflow_checks) ==
    IF t.inline_selections
    THEN LET selections_last_index == usize_sub(Len(selections), 1, overflow_checks)
         IN  IF selections_last_index.panic
             THEN [panic |-> TRUE, out |-> <<>>]
             ELSE [panic |-> FALSE,
                   out |-> ColoredTheme_multi_prompt_part(t, prompt)
                           \o ColoredTheme_multi_loop(
                                  selections, selections_last_index.val, 0)]
    ELSE [panic |-> FALSE, out |-> ColoredTheme_multi_prompt_part(t, prompt)]

(***************************************************************************)
(* Dynamic dispatch on &dyn Theme: the variant's override, or the trait's  *)
(* default method.                                                         *)
(***************************************************************************)
format_prompt(t, prompt) ==
    CASE t.kind = "CustomPromptCharacterTheme" ->
            CustomPromptCharacterTheme_format_prompt(t, prompt)
      [] t.kind = "ColorfulTheme" -> ColorfulTheme_format_prompt(t, prompt)
      [] t.kind = "ColoredTheme" -> ColoredTheme_format_prompt(t, prompt)
      [] OTHER -> Theme_format_prompt(t, prompt)

format_singleline_prompt(t, prompt, default) ==
    CASE t.kind = "CustomPromptCharacterTheme" ->
            CustomPromptCharacterTheme_format_singleline_prompt(t, prompt, default)
      [] t.kind = "ColorfulTheme" ->
            ColorfulTheme_format_singleline_prompt(t, prompt, default)
      [] t.kind = "ColoredTheme" ->
            ColoredTheme_format_singleline_prompt(t, prompt, default)
      [] OTHER -> Theme_format_singleline_prompt(t, prompt, default)

format_error(t, err) ==
    CASE t.kind = "ColorfulTheme" -> ColorfulTheme_format_error(t, err)
      [] t.kind = "ColoredTheme" -> ColoredTheme_format_error(t, err)
      [] OTHER -> Theme_format_error(t, err)

format_confirmation_prompt(t, prompt, default) ==
    CASE t.kind = "ColorfulTheme" ->
            ColorfulTheme_format_confirmation_prompt(t, prompt, default)
      [] t.kind = "ColoredTheme" ->
            ColoredTheme_format_confirmation_prompt(t, prompt, default)
      [] OTHER -> Theme_format_confirmation_prompt(t, prompt, default)

format_key_prompt(t, prompt, default, choices) ==
    CASE t.kind = "ColoredTheme" ->
            ColoredTheme_format_key_prompt(t, prompt, default, choices)
      [] OTHER -> Theme_format_key_prompt(t, prompt, default, choices)

format_confirmation_prompt_selection(t, prompt, selection) ==
    CASE t.kind = "ColorfulTheme" ->
            ColorfulTheme_format_confirmation_prompt_selection(t, prompt, selection)
      [] t.kind = "ColoredTheme" ->
            ColoredTheme_format_confirmation_prompt_selection(t, prompt, selection)
      [] OTHER -> Theme_format_confirmation_prompt_selection(t, prompt, selection)

format_single_prompt_selection(t, prompt, sel) ==
    CASE t.kind = "CustomPromptCharacterTheme" ->
            CustomPromptCharacterTheme_format_single_prompt_selection(t, prompt, sel)
      [] t.kind = "ColorfulTheme" ->
            ColorfulTheme_format_single_prompt_selection(t, prompt, sel)
      [] t.kind = "ColoredTheme" ->
            ColoredTheme_format_single_prompt_selection(t, prompt, sel)
      [] OTHER -> Theme_format_single_prompt_selection(t, prompt, sel)

format_multi_prompt_selection(t, prompt, selections, overflow_checks) ==
    CASE t.kind = "CustomPromptCharacterTheme" ->
            CustomPromptCharacterTheme_format_multi_prompt_selection(
                t, prompt, selections, overflow_checks)
      [] t.kind = "ColorfulTheme" ->
            ColorfulTheme_format_multi_prompt_selection(
                t, prompt, selections, overflow_checks)
      [] t.kind = "ColoredTheme" ->
            ColoredTheme_format_multi_prompt_selection(
                t, prompt, selections, overflow_checks)
      [] OTHER -> Theme_format_multi_prompt_selection(
                      t, prompt, selections, overflow_checks)

\* the trait's default calls self.format_single_prompt_selection(f, prompt, "[hidden]")
Theme_format_password_prompt_selection(t, prompt) ==
    format_single_prompt_selection(
        t, prompt, <<"[", "h", "i", "d", "d", "e", "n", "]">>)

format_password_prompt_selection(t, prompt) ==
    CASE t.kind = "ColoredTheme" ->
            ColoredTheme_format_password_prompt_selection(t, prompt)
      [] OTHER -> Theme_format_password_prompt_selection(t, prompt)

format_selection(t, text, style) ==
    CASE t.kind = "ColorfulTheme" -> ColorfulTheme_format_selection(t, text, style)
      [] t.kind = "ColoredTheme" -> ColoredTheme_format_selection(t, text, style)
      [] OTHER -> Theme_format_selection(t, text, style)

(***************************************************************************)
(* The Terminal (console::Term) and the results of the calls.              *)
(***************************************************************************)
\* io::Result<()>: Ok, or the error
Ok == "Ok"
\* the error write_formatted_* makes of a fmt::Error
FmtError == "Other(fmt::Error)"
\* the errors the Terminal may return
TermErrors == {"BrokenPipe", "WouldBlock"}
\* what a Terminal call may return
TermResults == {Ok} \cup TermErrors

\* the call a Terminal received: write_str(buf), write_line(buf) or
\* clear_last_lines(n), and what it returned
NoCall == [kind |-> "none", buf |-> <<>>, n |-> 0, ret |-> Ok]
TermCall(kind, buf, n, ret) == [kind |-> kind, buf |-> buf, n |-> n, ret |-> ret]

\* what the closure f(self, &mut buf) did: returned Ok with the buffer filled,
\* returned Err(fmt::Error), or panicked
FmtOk(out) == [res |-> "Ok", out |-> out]
FmtErr == [res |-> "Err", out |-> <<>>]
FmtPanic == [res |-> "Panic", out |-> <<>>]

\* the closure's outcome: the sink or a theme may fail the first write
Closure(fails, fmt) ==
    IF fails THEN FmtErr
    ELSE IF fmt.panic THEN FmtPanic
    ELSE FmtOk(fmt.out)

Infallible(out) == [panic |-> FALSE, out |-> out]

(***************************************************************************)
(* TermThemeRenderer.  A method is a function of the renderer's fields     *)
(* (self) and its inputs to the fields after the call, the call the        *)
(* Terminal received, the lines it added to height and what it returned.   *)
(***************************************************************************)
Self == [height |-> height, prompt_height |-> prompt_height,
         prompts_reset_height |-> prompts_reset_height]

Outcome(self, call, added, ret) ==
    [self |-> self, call |-> call, added |-> added, ret |-> ret]

TermThemeRenderer_new ==
    [height |-> 0, prompt_height |-> 0, prompts_reset_height |-> TRUE]

set_prompts_reset_height(self, val) ==
    Outcome([self EXCEPT !.prompts_reset_height = val], NoCall, 0, Ok)

add_line(self) ==
    Outcome([self EXCEPT !.height = self.height + 1], NoCall, 1, Ok)

\* write_formatted_str counting the buffer as a terminated line
write_formatted_str_plus_one(self, f, io) ==
    IF f.res = "Panic" THEN Outcome(self, NoCall, 0, "Panic")
    ELSE IF f.res = "Err" THEN Outcome(self, NoCall, 0, FmtError)
    ELSE LET n == count_newlines(f.out) + 1
         IN  Outcome([self EXCEPT !.height = self.height + n],
                     TermCall("write_str", f.out, 0, io), n, io)

write_formatted_str(self, f, io) ==
    IF f.res = "Panic" THEN Outcome(self, NoCall, 0, "Panic")
    ELSE IF f.res = "Err" THEN Outcome(self, NoCall, 0, FmtError)
    ELSE LET n == count_newlines(f.out)
         IN  Outcome([self EXCEPT !.height = self.height + n],
                     TermCall("write_str", f.out, 0, io), n, io)

write_formatted_line(self, f, io) ==
    IF f.res = "Panic" THEN Outcome(self, NoCall, 0, "Panic")
    ELSE IF f.res = "Err" THEN Outcome(self, NoCall, 0, FmtError)
    ELSE LET n == count_newlines(f.out) + 1
         IN  Outcome([self EXCEPT !.height = self.height + n],
                     TermCall("write_line", f.out, 0, io), n, io)

\* write_formatted_prompt adding height to prompt_height instead of replacing it
write_formatted_prompt_accumulating(self, f, io) ==
    LET r == write_formatted_line(self, f, io)
    IN  IF r.ret # Ok THEN r
        ELSE IF r.self.prompts_reset_height
        THEN [r EXCEPT !.self.prompt_height = r.self.prompt_height + r.self.height,
                       !.self.height = 0]
        ELSE r

write_formatted_prompt(self, f, io) ==
    LET r == write_formatted_line(self, f, io)
    IN  IF r.ret # Ok THEN r
        ELSE IF r.self.prompts_reset_height
        THEN [r EXCEPT !.self.prompt_height = r.self.height, !.self.height = 0]
        ELSE r

\* clear leaving height as it is
clear_keeping_height(self, io) ==
    LET n == self.height + self.prompt_height
    IN  Outcome(self, TermCall("clear_last_lines", <<>>, n, io), 0, io)

\* clear resetting height before it asks the Terminal
clear_reset_first(self, io) ==
    LET n == self.height + self.prompt_height
        call == TermCall("clear_last_lines", <<>>, n, io)
    IN  Outcome([self EXCEPT !.height = 0], call, 0, io)

clear(self, io) ==
    LET n == self.height + self.prompt_height
        call == TermCall("clear_last_lines", <<>>, n, io)
    IN  IF io # Ok THEN Outcome(self, call, 0, io)
        ELSE Outcome([self EXCEPT !.height = 0], call, 0, Ok)

\* count_overflows counting an item as wide as the terminal too
RECURSIVE count_overflows_ge(_, _, _)
count_overflows_ge(size_vec, width, i) ==
    IF i > Len(size_vec) THEN 0
    ELSE (IF size_vec[i] >= width THEN 1 ELSE 0)
         + count_overflows_ge(size_vec, width, i + 1)

\* the loop of clear_preserve_prompt over size_vec from index i (1-based) on
RECURSIVE count_overflows(_, _, _)
count_overflows(size_vec, width, i) ==
    IF i > Len(size_vec) THEN 0
    ELSE (IF size_vec[i] > width THEN 1 ELSE 0)
         + count_overflows(size_vec, width, i + 1)

\* clear_preserve_prompt erasing the prompt's lines too
clear_preserve_prompt_and_prompt(self, size_vec, width, io) ==
    LET new_height == self.height + self.prompt_height
                      + count_overflows(size_vec, width, 1)
        call == TermCall("clear_last_lines", <<>>, new_height, io)
    IN  IF io # Ok THEN Outcome(self, call, 0, io)
        ELSE Outcome([self EXCEPT !.height = 0], call, 0, Ok)

clear_preserve_prompt(self, size_vec, width, io) ==
    LET new_height == self.height + count_overflows(size_vec, width, 1)
        call == TermCall("clear_last_lines", <<>>, new_height, io)
    IN  IF io # Ok THEN Outcome(self, call, 0, io)
        ELSE Outcome([self EXCEPT !.height = 0], call, 0, Ok)

\* the render methods
error(self, err, fails, io) ==
    write_formatted_line(self, Closure(fails, Infallible(format_error(theme, err))), io)

prompt(self, text, fails, io) ==
    write_formatted_prompt(self, Closure(fails, Infallible(format_prompt(theme, text))), io)

input_prompt(self, text, default, fails, io) ==
    write_formatted_str(
        self, Closure(fails, Infallible(format_singleline_prompt(theme, text, default))), io)

password_prompt(self, text, fails, io) ==
    write_formatted_str(
        self,
        Closure(fails,
                Infallible(<<CR>> \o format_singleline_prompt(theme, text, NoneStr))),
        io)

confirmation_prompt(self, text, default, fails, io) ==
    write_formatted_str(
        self, Closure(fails, Infallible(format_confirmation_prompt(theme, text, default))), io)

key_prompt(self, text, default, choices, fails, io) ==
    write_formatted_str(
        self, Closure(fails, Infallible(format_key_prompt(theme, text, default, choices))), io)

confirmation_prompt_selection(self, text, sel, fails, io) ==
    write_formatted_prompt(
        self,
        Closure(fails, Infallible(format_confirmation_prompt_selection(theme, text, sel))),
        io)

key_prompt_selection(self, text, sel, fails, io) ==
    write_formatted_prompt(
        self,
        Closure(fails, Infallible(format_single_prompt_selection(theme, text, <<sel>>))),
        io)

single_prompt_selection(self, text, sel, fails, io) ==
    write_formatted_prompt(
        self, Closure(fails, Infallible(format_single_prompt_selection(theme, text, sel))), io)

multi_prompt_selection(self, text, selections, overflow_checks, fails, io) ==
    write_formatted_prompt(
        self,
        Closure(fails,
                format_multi_prompt_selection(theme, text, selections, overflow_checks)),
        io)

password_prompt_selection(self, text, fails, io) ==
    write_formatted_prompt(
        self, Closure(fails, Infallible(format_password_prompt_selection(theme, text))), io)

selection(self, text, style, fails, io) ==
    write_formatted_line(
        self, Closure(fails, Infallible(format_selection(theme, text, style))), io)

(***************************************************************************)
(* The inputs the callers are modelled to pass.                            *)
(***************************************************************************)
\* prompt, error and item texts: one line, and two lines
Texts == {<<"Q">>, <<"Q", NL, "R">>}
\* Option<&str> defaults of input_prompt
StrDefaults == {NoneStr, Some(<<"d", NL>>)}
\* Option<bool> defaults of confirmation_prompt
BoolDefaults == {NoneBool, Some(TRUE)}
\* Option<u8> defaults and the choices of key_prompt
KeyDefaults == {NoneU8, Some(1)}
KeyChoices == {<<"y", "n", "p">>, <<"y", NL>>}
\* the selections of multi_prompt_selection
MultiSelections == {<<>>, <<<<"r">>, <<"b", NL>>>>}
\* the item sizes of clear_preserve_prompt and the widths the Terminal reports
SizeVecs == {<<10, 200>>, <<80, 81, 79>>}
Widths == {80, 10}
\* the styles of the items the widgets render
ItemStyles == {"CheckboxCheckedSelected", "CheckboxUncheckedUnselected", "MenuSelected"}
\* what a write to the Terminal may return
WriteResults == {Ok, "BrokenPipe"}
\* how a render call may go: the closure fails, or it succeeds and the
\* Terminal returns io
Outcomes ==
    {[fails |-> TRUE, io |-> Ok]} \cup {[fails |-> FALSE, io |-> r] : r \in WriteResults}
\* the inputs tried with outcome o: when the closure fails before it reads
\* them, one representative
In(o, S) == IF o.fails THEN {CHOOSE x \in S : TRUE} ELSE S
\* the themes a renderer is made of
InitThemes ==
    {SimpleTheme, CustomPromptCharacterTheme_new(">"), ColorfulTheme_default,
     ColoredTheme_default}

(***************************************************************************)
(* The state machine of one interaction: a theme is built, a renderer is   *)
(* made of it, and the widget calls the renderer's methods.                *)
(***************************************************************************)
LastOp(op, ret, size_vec, width, style) ==
    [op |-> op, ret |-> ret, size_vec |-> size_vec, width |-> width, style |-> style]

NoFormat ==
    [fn |-> "none", text |-> <<>>, default |-> NoneU8, choices |-> <<>>,
     selections |-> <<>>, style |-> "", panic |-> FALSE, out |-> <<>>]

Max(a, b) == IF a >= b THEN a ELSE b
Min(a, b) == IF a <= b THEN a ELSE b

\* the render methods by write strategy
StrOps == {"input_prompt", "password_prompt", "confirmation_prompt", "key_prompt"}
LineOps == {"error", "selection"}
PromptOps ==
    {"prompt", "confirmation_prompt_selection", "key_prompt_selection",
     "single_prompt_selection", "multi_prompt_selection", "password_prompt_selection"}
RenderOps == StrOps \cup LineOps \cup PromptOps

\* the newline characters in a buffer
Newlines(buf) == Cardinality({i \in DOMAIN buf : buf[i] = NL})

\* The widget that drives the renderer.  mode "free": any method in any order,
\* nothing recorded.  mode "redraw" and "preserve": the widget redraws in
\* cycles and records the cycles it completed, the lines it had written by the
\* prompt (head) and below it (body) that it has not asked to erase yet, and
\* the totals of the lines written and of the lines requested to be erased.
Driver(mode) ==
    [mode |-> mode, cycle |-> 0, head |-> 0, body |-> 0, written |-> 0, erased |-> 0]

\* the lines a Terminal call put on the screen
LinesWritten(call) ==
    IF call.ret # Ok THEN 0
    ELSE IF call.kind = "write_line" THEN Newlines(call.buf) + 1
    ELSE IF call.kind = "write_str" THEN Newlines(call.buf)
    ELSE 0

\* the widget's record after renderer method op went as r
Drive(op, r) ==
    LET w == LinesWritten(r.call)
    IN  IF drv.mode = "free" \/ r.ret # Ok THEN drv
        ELSE IF op \in PromptOps
        THEN [drv EXCEPT !.head = w, !.body = 0, !.written = drv.written + w]
        ELSE IF op \in LineOps
        THEN [drv EXCEPT !.body = drv.body + w, !.written = drv.written + w]
        ELSE IF op = "clear_preserve_prompt"
        THEN [drv EXCEPT !.body = 0, !.cycle = Min(drv.cycle + 1, MaxCycles),
                         !.erased = drv.erased + r.call.n]
        ELSE IF op = "clear"
        THEN [drv EXCEPT !.head = 0, !.body = 0,
                         !.cycle = Min(drv.cycle + 1, MaxCycles),
                         !.erased = drv.erased + r.call.n]
        ELSE drv

Init ==
    /\ pc = "setup"
    /\ theme \in InitThemes
    /\ from_default = (theme # CustomPromptCharacterTheme_new(">"))
    /\ colors_enabled = TRUE
    /\ height = 0
    /\ prompt_height = 0
    /\ prompts_reset_height = TRUE
    /\ term_call = NoCall
    /\ accounted = 0
    /\ last = LastOp("none", Ok, <<>>, 0, "")
    /\ fcall = NoFormat
    /\ drv = Driver("free")

\* ColoredTheme::default().inline_selections(val)
Build_inline_selections ==
    /\ pc = "setup"
    /\ theme.kind = "ColoredTheme"
    /\ \E val \in BOOLEAN :
          /\ theme' = ColoredTheme_inline_selections(theme, val)
          /\ last' = LastOp("inline_selections", Ok, <<>>, 0, "")
    /\ from_default' = FALSE
    /\ fcall' = NoFormat
    /\ UNCHANGED <<pc, colors_enabled, height, prompt_height, prompts_reset_height,
                   term_call, accounted, drv>>

\* ColoredTheme::default().set_sort(val)
Build_set_sort ==
    /\ pc = "setup"
    /\ theme.kind = "ColoredTheme"
    /\ \E val \in BOOLEAN :
          /\ theme' = ColoredTheme_set_sort(theme, val)
          /\ last' = LastOp("set_sort", Ok, <<>>, 0, "")
    /\ from_default' = FALSE
    /\ fcall' = NoFormat
    /\ UNCHANGED <<pc, colors_enabled, height, prompt_height, prompts_reset_height,
                   term_call, accounted, drv>>

\* TermThemeRenderer::new(term, theme)
New ==
    /\ pc = "setup"
    /\ pc' = "render"
    /\ height' = TermThemeRenderer_new.height
    /\ prompt_height' = TermThemeRenderer_new.prompt_height
    /\ prompts_reset_height' = TermThemeRenderer_new.prompts_reset_height
    /\ last' = LastOp("new", Ok, <<>>, 0, "")
    /\ UNCHANGED <<theme, from_default, colors_enabled, term_call, accounted, fcall, drv>>

\* one call of a renderer method with outcome r
Step(op, r, size_vec, width, style) ==
    /\ pc = "render"
    /\ r.self.height <= MaxLines
    /\ accounted + r.added <= MaxLines
    /\ pc' = IF r.ret = "Panic" THEN "panicked" ELSE "render"
    /\ height' = r.self.height
    /\ prompt_height' = r.self.prompt_height
    /\ prompts_reset_height' = r.self.prompts_reset_height
    /\ term_call' = TermCall(r.call.kind, r.call.buf, r.call.n, r.call.ret)
    /\ accounted' = IF r.call.kind = "clear_last_lines" /\ r.call.ret = Ok
                    THEN Max(0, accounted - r.call.n)
                    ELSE accounted + r.added
    /\ last' = LastOp(op, r.ret, size_vec, width, style)
    /\ drv' = Drive(op, r)
    /\ UNCHANGED <<theme, from_default, colors_enabled, fcall>>

Call_set_prompts_reset_height ==
    \E val \in BOOLEAN :
        Step("set_prompts_reset_height", set_prompts_reset_height(Self, val), <<>>, 0, "")

Call_add_line == Step("add_line", add_line(Self), <<>>, 0, "")

Call_error ==
    \E o \in Outcomes : \E err \in In(o, Texts) :
        Step("error", error(Self, err, o.fails, o.io), <<>>, 0, "")

Call_prompt ==
    \E o \in Outcomes : \E text \in In(o, Texts) :
        Step("prompt", prompt(Self, text, o.fails, o.io), <<>>, 0, "")

Call_input_prompt ==
    \E o \in Outcomes : \E text \in {<<"Q">>}, default \in In(o, StrDefaults) :
        Step("input_prompt", input_prompt(Self, text, default, o.fails, o.io), <<>>, 0, "")

Call_password_prompt ==
    \E o \in Outcomes : \E text \in In(o, Texts) :
        Step("password_prompt", password_prompt(Self, text, o.fails, o.io), <<>>, 0, "")

Call_confirmation_prompt ==
    \E o \in Outcomes : \E text \in In(o, Texts), default \in In(o, BoolDefaults) :
        Step("confirmation_prompt",
             confirmation_prompt(Self, text, default, o.fails, o.io), <<>>, 0, "")

Call_key_prompt ==
    \E o \in Outcomes :
      \E text \in {<<"Q">>}, default \in In(o, KeyDefaults), choices \in In(o, KeyChoices) :
        Step("key_prompt", key_prompt(Self, text, default, choices, o.fails, o.io),
             <<>>, 0, "")

Call_confirmation_prompt_selection ==
    \E o \in Outcomes : \E text \in In(o, Texts), sel \in In(o, BOOLEAN) :
        Step("confirmation_prompt_selection",
             confirmation_prompt_selection(Self, text, sel, o.fails, o.io), <<>>, 0, "")

Call_key_prompt_selection ==
    \E o \in Outcomes : \E text \in {<<"Q">>}, sel \in In(o, {"y", NL}) :
        Step("key_prompt_selection",
             key_prompt_selection(Self, text, sel, o.fails, o.io), <<>>, 0, "")

Call_single_prompt_selection ==
    \E o \in Outcomes : \E text \in {<<"Q">>}, sel \in In(o, Texts) :
        Step("single_prompt_selection",
             single_prompt_selection(Self, text, sel, o.fails, o.io), <<>>, 0, "")

Call_multi_prompt_selection ==
    \E o \in Outcomes :
      \E text \in {<<"Q">>}, selections \in In(o, MultiSelections),
         overflow_checks \in In(o, BOOLEAN) :
        Step("multi_prompt_selection",
             multi_prompt_selection(Self, text, selections, overflow_checks, o.fails, o.io),
             <<>>, 0, "")

Call_password_prompt_selection ==
    \E o \in Outcomes : \E text \in In(o, Texts) :
        Step("password_prompt_selection",
             password_prompt_selection(Self, text, o.fails, o.io), <<>>, 0, "")

Call_selection ==
    \E o \in Outcomes : \E text \in {<<"Q">>}, style \in In(o, ItemStyles) :
        Step("selection", selection(Self, text, style, o.fails, o.io), <<>>, 0, style)

Call_clear ==
    \E io \in TermResults : Step("clear", clear(Self, io), <<>>, 0, "")

Call_clear_preserve_prompt ==
    \E size_vec \in SizeVecs, width \in Widths, io \in TermResults :
        Step("clear_preserve_prompt", clear_preserve_prompt(Self, size_vec, width, io),
             size_vec, width, "")

Next ==
    \/ New
    \/ Call_set_prompts_reset_height
    \/ Call_add_line
    \/ Call_error
    \/ Call_prompt
    \/ Call_input_prompt
    \/ Call_password_prompt
    \/ Call_confirmation_prompt
    \/ Call_key_prompt
    \/ Call_confirmation_prompt_selection
    \/ Call_key_prompt_selection
    \/ Call_single_prompt_selection
    \/ Call_multi_prompt_selection
    \/ Call_password_prompt_selection
    \/ Call_selection
    \/ Call_clear
    \/ Call_clear_preserve_prompt

Spec == Init /\ [][Next]_vars

(***************************************************************************)
(* Properties of the renderer.                                             *)
(***************************************************************************)
\* the items of size_vec strictly wider than width
WiderItems(size_vec, width) == {i \in DOMAIN size_vec : size_vec[i] > width}

\* C1: a successful clear() asks the Terminal to erase exactly height +
\* prompt_height lines, the values at the call, and leaves height = 0 and
\* prompt_height = 0.
C1_ClearErasesAndResetsBoth ==
    [][(last'.op = "clear" /\ last'.ret = Ok)
        => /\ term_call' = TermCall("clear_last_lines", <<>>, height + prompt_height, Ok)
           /\ height' = 0
           /\ prompt_height' = 0]_vars

\* C2: height + prompt_height equals the number of lines accounted as emitted
\* and not yet erased by a clear request; every renderer operation other than a
\* clear_preserve_prompt with an item wider than the terminal keeps it so.
C2_CountersEqualOutstandingLines ==
    [][(/\ height + prompt_height = accounted
        /\ last'.op # "none"
        /\ WiderItems(last'.size_vec, last'.width) = {})
        => height' + prompt_height' = accounted']_vars

\* C3: a render call that fails, in the theme's formatting or in the Terminal's
\* write, returns the error and leaves height and prompt_height as they were.
C3_FailedRenderKeepsCounters ==
    [][(last'.op \in RenderOps /\ last'.ret \notin {Ok, "Panic"})
        => (height' = height /\ prompt_height' = prompt_height)]_vars

\* C4: with prompts_reset_height = true, a successful write-as-prompt render at
\* height = h of a buffer with n newlines leaves height = 0 and
\* prompt_height = h + n + 1.
C4_PromptRollover ==
    [][(last'.op \in PromptOps /\ last'.ret = Ok /\ prompts_reset_height)
        => /\ term_call'.kind = "write_line"
           /\ height' = 0
           /\ prompt_height' = height + Newlines(term_call'.buf) + 1]_vars

\* C4 (witness): a one-line prompt written at height 2 (two add_line calls) has
\* left height = 0 and prompt_height = 3.
C4_Witness ==
    /\ last.op = "prompt" /\ last.ret = Ok /\ prompts_reset_height
    /\ Newlines(term_call.buf) = 0
    /\ height = 0 /\ prompt_height = 3

\* C5: a successful clear_preserve_prompt(item_sizes) asks the Terminal to erase
\* height + (number of items strictly wider than the terminal) lines, leaves
\* prompt_height unchanged and height = 0.
C5_ClearPreservePrompt ==
    [][(last'.op = "clear_preserve_prompt" /\ last'.ret = Ok)
        => /\ term_call' = TermCall("clear_last_lines", <<>>,
                                    height + Cardinality(WiderItems(last'.size_vec,
                                                                    last'.width)),
                                    Ok)
           /\ prompt_height' = prompt_height
           /\ height' = 0]_vars

\* C5 (witness): sizes [80, 81, 79] at width 80, one item as wide as the terminal
\* and one wider, cleared over a prompt that stays counted.
C5_Witness ==
    /\ last.op = "clear_preserve_prompt" /\ last.ret = Ok
    /\ last.size_vec = <<80, 81, 79>> /\ last.width = 80
    /\ term_call.n = 3
    /\ height = 0 /\ prompt_height = 2

\* C6: a write-as-str render adds to height the newlines of the formatted
\* buffer and nothing else (no +1, the carriage return of password_prompt not
\* counted), and never changes prompt_height nor resets height, whatever
\* prompts_reset_height is.
C6_WriteAsStr ==
    [][(last'.op \in StrOps)
        => /\ prompt_height' = prompt_height
           /\ last'.ret = FmtError => height' = height
           /\ last'.ret # FmtError
                => /\ term_call'.kind = "write_str"
                   /\ height' = height + Newlines(term_call'.buf)
           /\ (last'.op = "password_prompt" /\ last'.ret = Ok)
                => (term_call'.buf # <<>> /\ Head(term_call'.buf) = CR)]_vars

\* C6 (witness): a password_prompt of a two-line text written with
\* prompts_reset_height = true over a counted prompt and two body lines.
C6_Witness ==
    /\ last.op = "password_prompt" /\ last.ret = Ok /\ prompts_reset_height
    /\ Head(term_call.buf) = CR /\ Newlines(term_call.buf) = 1
    /\ height = 3 /\ prompt_height = 1

\* C10: when the Terminal's clear_last_lines fails during clear() or
\* clear_preserve_prompt(), the call returns that error and height and
\* prompt_height keep their values.
C10_FailedClearKeepsCounters ==
    [][(last'.op \in {"clear", "clear_preserve_prompt"} /\ term_call'.ret # Ok)
        => /\ last'.ret = term_call'.ret
           /\ last'.ret \in TermErrors
           /\ height' = height
           /\ prompt_height' = prompt_height]_vars

\* C10 (witness): a clear() that failed with body and prompt lines counted.
C10_Witness ==
    /\ last.op = "clear" /\ last.ret = "WouldBlock"
    /\ term_call.kind = "clear_last_lines" /\ term_call.n = 3
    /\ height = 2 /\ prompt_height = 1

(***************************************************************************)
(* The Theme's formatters called on their own: a theme is built and its    *)
(* public formatting methods are applied to inputs.                        *)
(***************************************************************************)
\* choices of length n, alternating 'y' and 'n'
LongChoices(n) == [i \in 1..n |-> IF i % 2 = 1 THEN "y" ELSE "n"]
\* the choices and defaults given to _format_key_prompt
HelperChoices ==
    {<<>>, <<"y">>, <<"y", "n", "p">>, <<"p", "/", "n", "X">>,
     LongChoices(NoDefaultIndex), LongChoices(NoDefaultIndex + 1),
     LongChoices(NoDefaultIndex + 2)}
HelperDefaults == {NoneU8, Some(0), Some(1), Some(2), Some(3), Some(NoDefaultIndex), Some(255)}
\* the selections given to format_multi_prompt_selection
ThemeSelections ==
    {<<>>, <<<<"r">>>>, <<<<"r", "e", "d">>, <<"b", "l", "u", "e">>>>,
     <<<<"r">>, <<"b">>, <<"r">>>>, <<<<"r">>, <<>>, <<"b", NL>>>>}

\* one direct call of formatter fn, with its inputs and its result
Format(fn, text, default, choices, selections, style, result) ==
    /\ pc = "setup"
    /\ fcall' = [fn |-> fn, text |-> text, default |-> default, choices |-> choices,
                 selections |-> selections, style |-> style, panic |-> result.panic,
                 out |-> result.out]
    /\ UNCHANGED <<pc, theme, from_default, colors_enabled, height, prompt_height,
                   prompts_reset_height, term_call, accounted, last, drv>>

Call_format_key_prompt_helper ==
    \E default \in HelperDefaults, choices \in HelperChoices :
        Format("_format_key_prompt", <<>>, default, choices, <<>>, "",
               Infallible(_format_key_prompt(default, choices)))

Call_format_multi_prompt_selection ==
    \E text \in Texts, selections \in ThemeSelections, overflow_checks \in BOOLEAN :
        Format("format_multi_prompt_selection", text, NoneU8, <<>>, selections, "",
               format_multi_prompt_selection(theme, text, selections, overflow_checks))

Call_format_selection ==
    \E text \in Texts, style \in SelectionStyle :
        Format("format_selection", text, NoneU8, <<>>, <<>>, style,
               Infallible(format_selection(theme, text, style)))

NextTheme ==
    \/ Build_inline_selections
    \/ Build_set_sort
    \/ Call_format_key_prompt_helper
    \/ Call_format_multi_prompt_selection
    \/ Call_format_selection

InitTheme ==
    /\ pc = "setup"
    /\ theme \in InitThemes \cup {CustomPromptCharacterTheme_default}
    /\ from_default = (theme # CustomPromptCharacterTheme_new(">"))
    /\ colors_enabled \in BOOLEAN
    /\ height = 0
    /\ prompt_height = 0
    /\ prompts_reset_height = TRUE
    /\ term_call = NoCall
    /\ accounted = 0
    /\ last = LastOp("none", Ok, <<>>, 0, "")
    /\ fcall = NoFormat
    /\ drv = Driver("free")

SpecTheme == InitTheme /\ [][NextTheme]_vars

(***************************************************************************)
(* Properties of the formatters.                                           *)
(***************************************************************************)
\* the choices in their order joined by '/', the one at the default index
\* uppercased when a default is given
JoinedChoices(default, choices) ==
    [k \in 1..(IF choices = <<>> THEN 0 ELSE 2 * Len(choices) - 1) |->
        IF k % 2 = 0 THEN "/"
        ELSE LET i == (k + 1) \div 2
             IN  IF default.some /\ default.val = i - 1
                 THEN to_ascii_uppercase(choices[i])
                 ELSE choices[i]]

\* C7: for every sequence of choices and every optional default index,
\* _format_key_prompt returns the choices in order joined by '/', exactly the
\* one at the default index uppercased when a default is given and in range,
\* and none changed when the default is None.
C7_KeyPromptHelper ==
    fcall.fn = "_format_key_prompt"
        => fcall.out = JoinedChoices(fcall.default, fcall.choices)

\* the styled values of a multi selection, in order, ", " between them and a
\* space before the first
RECURSIVE ListedValues(_, _)
ListedValues(selections, i) ==
    IF i > Len(selections) THEN <<>>
    ELSE (IF i = 1 THEN <<" ">> ELSE <<",", " ">>)
         \o apply_to(Colored_values_style, selections[i])
         \o ListedValues(selections, i + 1)

\* C8: ColoredTheme's format_multi_prompt_selection, for every selections
\* sequence, writes the prompt decoration alone when inline_selections is false,
\* and the decoration followed by every selected value once, in order, with
\* ", " between them and nothing after the last, when it is true.
C8_ColoredMultiSelection ==
    (fcall.fn = "format_multi_prompt_selection" /\ theme.kind = "ColoredTheme")
        => /\ ~fcall.panic
           /\ fcall.out = ColoredTheme_multi_prompt_part(theme, fcall.text)
                          \o (IF theme.inline_selections
                              THEN ListedValues(fcall.selections, 1)
                              ELSE <<>>)

\* the characters of a string
Chars(str) == {str[i] : i \in DOMAIN str}

\* C9: ColoredTheme::default() has inline_selections = true and
\* is_sort = false, and so renders a checked and selected checkbox item with
\* the check glyph and not with the pointer of the ordering mode.
C9_ColoredDefaults ==
    (theme.kind = "ColoredTheme" /\ from_default)
        => /\ theme.inline_selections = TRUE
           /\ theme.is_sort = FALSE
           /\ (fcall.fn = "format_selection" /\ fcall.style = "CheckboxCheckedSelected")
                => (CHECK \in Chars(fcall.out) /\ POINTER \notin Chars(fcall.out))

(***************************************************************************)
(* A widget that redraws in cycles: a prompt, item and error lines below   *)
(* it, and clear() before the next cycle.  A call that returns an error    *)
(* ends the interaction (the widgets return it with ?).                    *)
(***************************************************************************)
InitRedraw ==
    /\ pc = "setup"
    /\ theme \in InitThemes
    /\ from_default = (theme # CustomPromptCharacterTheme_new(">"))
    /\ colors_enabled = TRUE
    /\ height = 0
    /\ prompt_height = 0
    /\ prompts_reset_height = TRUE
    /\ term_call = NoCall
    /\ accounted = 0
    /\ last = LastOp("none", Ok, <<>>, 0, "")
    /\ fcall = NoFormat
    /\ drv = Driver("redraw")

\* the widget is below the prompt of a cycle
InBody == last.ret = Ok /\ last.op \in {"prompt", "selection", "error"}

Redraw_prompt ==
    /\ last.ret = Ok
    /\ last.op \in {"new", "clear"}
    /\ drv.cycle < MaxCycles
    /\ Call_prompt

Redraw_selection == InBody /\ Call_selection

Redraw_error == InBody /\ Call_error

Redraw_clear == InBody /\ Call_clear

NextRedraw ==
    \/ New
    \/ Redraw_prompt
    \/ Redraw_selection
    \/ Redraw_error
    \/ Redraw_clear

SpecRedraw == InitRedraw /\ [][NextRedraw]_vars

\* C11: with prompts_reset_height = true, through any number of redraw cycles
\* [one prompt; any number of selection and error lines; clear()], every
\* successful clear() requests exactly the lines written in its own cycle (the
\* prompt's and those below it), nothing of an earlier cycle.
C11_RedrawCycles ==
    [][(drv.mode = "redraw" /\ last'.op = "clear" /\ last'.ret = Ok)
        => /\ prompts_reset_height
           /\ term_call'.kind = "clear_last_lines"
           /\ term_call'.n = drv.head + drv.body
           /\ drv'.erased = drv'.written]_vars

\* C11 (witness): the clear() of a second cycle of three lines, after a first
\* cycle of two.
C11_Witness ==
    /\ drv.mode = "redraw" /\ last.op = "clear" /\ last.ret = Ok
    /\ drv.cycle = 2 /\ term_call.n = 3
    /\ drv.written = 5 /\ drv.erased = 5

(***************************************************************************)
(* A widget that keeps its prompt: one prompt, then cycles of item lines   *)
(* and clear_preserve_prompt, none of the items wider than the terminal,   *)
(* and a final clear().                                                    *)
(***************************************************************************)
\* item sizes no wider than the terminal reports
NarrowSizeVecs == {<<>>, <<10, 80>>}
NarrowWidths == {80, 200}

InitPreserve ==
    /\ pc = "setup"
    /\ theme \in InitThemes
    /\ from_default = (theme # CustomPromptCharacterTheme_new(">"))
    /\ colors_enabled = TRUE
    /\ height = 0
    /\ prompt_height = 0
    /\ prompts_reset_height = TRUE
    /\ term_call = NoCall
    /\ accounted = 0
    /\ last = LastOp("none", Ok, <<>>, 0, "")
    /\ fcall = NoFormat
    /\ drv = Driver("preserve")

Preserve_prompt == last.op = "new" /\ Call_prompt

Preserve_selection ==
    /\ last.ret = Ok
    /\ last.op \in {"prompt", "selection", "clear_preserve_prompt"}
    /\ Call_selection

Preserve_clear_preserve_prompt ==
    /\ last.ret = Ok
    /\ last.op \in {"prompt", "selection", "clear_preserve_prompt"}
    /\ drv.cycle < MaxCycles
    /\ \E size_vec \in NarrowSizeVecs, width \in NarrowWidths, io \in TermResults :
          Step("clear_preserve_prompt", clear_preserve_prompt(Self, size_vec, width, io),
               size_vec, width, "")

Preserve_clear ==
    /\ last.ret = Ok
    /\ last.op \in {"prompt", "clear_preserve_prompt"}
    /\ Call_clear

NextPreserve ==
    \/ New
    \/ Preserve_prompt
    \/ Preserve_selection
    \/ Preserve_clear_preserve_prompt
    \/ Preserve_clear

SpecPreserve == InitPreserve /\ [][NextPreserve]_vars

\* C12: in an interaction [one prompt; cycles of (k selection lines;
\* clear_preserve_prompt with no item wider than the terminal); a final
\* clear()], each successful clear_preserve_prompt requests exactly the k body
\* lines of its cycle, the final clear() requests exactly the prompt's lines,
\* and the lines requested to be erased are in total the lines written.
C12_PreserveCycles ==
    [][(drv.mode = "preserve" /\ last'.ret = Ok)
        => /\ last'.op = "clear_preserve_prompt"
                => /\ WiderItems(last'.size_vec, last'.width) = {}
                   /\ term_call'.kind = "clear_last_lines"
                   /\ term_call'.n = drv.body
           /\ last'.op = "clear"
                => /\ term_call'.kind = "clear_last_lines"
                   /\ term_call'.n = drv.head
                   /\ drv'.erased = drv'.written]_vars

\* C12 (witness): the final clear() of a one-line prompt after a cycle of two
\* item lines and a cycle of one.
C12_Witness ==
    /\ drv.mode = "preserve" /\ last.op = "clear" /\ last.ret = Ok
    /\ drv.cycle = 3 /\ term_call.n = 1
    /\ drv.written = 4 /\ drv.erased = 4

(***************************************************************************)
(* The empty multi selection.                                              *)
(***************************************************************************)
\* what a theme writes of a multi selection before the values
PromptPart(t, text) ==
    IF t.kind = "ColoredTheme"
    THEN apply_to(Colored_values_style, <<CHECK>>) \o <<" ">>
         \o apply_to(Colored_prompts_style, text) \o <<" ">>
         \o apply_to(Colored_defaults_style, <<MIDDOT>>)
    ELSE text \o <<t.prompt_character, " ">>

\* C13: for an empty selections sequence format_multi_prompt_selection
\* completes in every theme variant, ColoredTheme with inline_selections = true
\* included, without underflow of the last index, and writes the prompt part
\* followed by no values.
C13_EmptySelections ==
    (fcall.fn = "format_multi_prompt_selection" /\ fcall.selections = <<>>)
        => /\ ~fcall.panic
           /\ fcall.out = PromptPart(theme, fcall.text)

====
